---- MODULE Spec2Model ----
(***************************************************************************)
(* Model of software/doc/conf.py, the Sphinx configuration script.         *)
(*                                                                         *)
(* conf.py is executed top to bottom once per documentation build.  A run  *)
(* is modelled statement by statement: pc[r] is the line the run is at and *)
(* ns[r] is the module namespace the script has built so far (a function   *)
(* from the names bound so far to their values).  NumRuns builds execute   *)
(* independently, each in its own environment, so that statements about    *)
(* "every environment" compare the namespaces of finished runs.            *)
(***************************************************************************)
EXTENDS Integers, Sequences, FiniteSets, TLC

\* Number of independent builds (each one execution of conf.py).
NumRuns == 2

Runs == 1..NumRuns

VARIABLES
    pc,            \* pc[r]: line of conf.py the run executes next, "done" or "error"
    ns,            \* ns[r]: the namespace of the run, name -> value
    env,           \* env[r]: what the run's environment answers to the two probes
    importResult,  \* importResult[r]: outcome of `import sphinxcontrib.plantuml`
    whichCalls,    \* whichCalls[r]: number of shutil.which('plantuml') calls made
    exc            \* exc[r]: the exception last raised in the run, or "none"

vars == <<pc, ns, env, importResult, whichCalls, exc>>

\* ---------------------------------------------------------------- values

\* Python's None.
None == "None"

\* Outcomes of `import sphinxcontrib.plantuml`: the module is imported, or the
\* import machinery raises ImportError or its subclass ModuleNotFoundError.
ImportOutcomes == {"ok", "ImportError", "ModuleNotFoundError"}

\* The exception classes an `except ImportError` clause catches.
ImportErrorClasses == {"ImportError", "ModuleNotFoundError"}

\* Environments: the plugin probe's outcome and whether a 'plantuml'
\* executable is on PATH.
Envs == [plugin : ImportOutcomes, onPath : BOOLEAN]

BaseExtensions ==
    << "sphinx.ext.intersphinx", "sphinx.ext.autodoc",
       "sphinx.ext.todo", "sphinx.ext.viewcode" >>

PlantumlExtension == "sphinxcontrib.plantuml"

PlantumlCommand == "plantuml"

PlantumlJarCommand == "java -jar /usr/share/plantuml/plantuml.jar"

ExcludePatterns ==
    << "_build", "_build_sphinx", "Thumbs.db", ".DS_Store",
       "README.md", "README.rst", "../.github/**", "../.gitlab-ci.yml",
       "**/.git/**", "**/node_modules/**", "**/build/**",
       "**/build_app/**", "**/build_net/**" >>

HtmlThemeOptions ==
    [ navigation_depth |-> 4, collapse_navigation |-> FALSE,
      sticky_navigation |-> TRUE, titles_only |-> FALSE ]

IntersphinxMapping ==
    [ zephyr |-> << "https://docs.zephyrproject.org/latest/", None >>,
      matter |-> << "https://project-chip.github.io/connectedhomeip-doc/", None >> ]

\* ---------------------------------------------------------------- helpers

\* The namespace before the first statement: nothing bound by the script.
EmptyNs == [k \in {} |-> None]

\* name = val : bind (or rebind) one name in a namespace.
Bind(n, name, val) ==
    [k \in (DOMAIN n) \cup {name} |-> IF k = name THEN val ELSE n[k]]

\* A name is bound in the run's namespace.
Defined(r, name) == name \in DOMAIN ns[r]

\* shutil.which(cmd): the path of the executable, or None when PATH has none.
Which(e) == IF e.onPath THEN "/usr/bin/plantuml" ELSE None

\* Python truthiness of what shutil.which returns (None is false, a
\* non-empty path string is true).
Truthy(v) == v # None

\* Variant: the clause names the subclass, `except ModuleNotFoundError`, so a
\* plain ImportError is not caught.
Handler_SubclassOnly(e) == IF e = "ModuleNotFoundError" THEN "L41" ELSE "error"

\* Where control goes when an exception is raised inside the try block of
\* lines 27-41: the handler if the clause catches the class, otherwise the
\* script terminates with the exception.
Handler(e) == IF e \in ImportErrorClasses THEN "L41" ELSE "error"

\* Control of run r moves from one line to the next.
Goto(r, from, to) ==
    /\ pc[r] = from
    /\ pc' = [pc EXCEPT ![r] = to]

\* A plain assignment statement `name = val` at line `from`.
Assign(r, from, to, name, val) ==
    /\ Goto(r, from, to)
    /\ ns' = [ns EXCEPT ![r] = Bind(@, name, val)]
    /\ UNCHANGED <<env, importResult, whichCalls, exc>>

\* ---------------------------------------------------------------- Init

Init ==
    /\ pc = [r \in Runs |-> "L9"]
    /\ ns = [r \in Runs |-> EmptyNs]
    /\ env \in [Runs -> Envs]
    /\ importResult = [r \in Runs |-> "pending"]
    /\ whichCalls = [r \in Runs |-> 0]
    /\ exc = [r \in Runs |-> "none"]

\* ---------------------------------------------------------------- actions

\* -- Project information (lines 9-13)
AssignProject(r) ==
    Assign(r, "L9", "L10", "project", "nRF5340 DK Matter Smart Light")

AssignCopyright(r) ==
    Assign(r, "L10", "L11", "copyright", "2024-2026, Smart Home Project")

AssignAuthor(r) ==
    Assign(r, "L11", "L12", "author", "Smart Home Development Team")

AssignRelease(r) ==
    Assign(r, "L12", "L13", "release", "1.0.0")

AssignVersion(r) ==
    Assign(r, "L13", "L18", "version", "1.0")

\* -- General configuration (lines 18-26)
AssignExtensions(r) ==
    Assign(r, "L18", "L26", "extensions", BaseExtensions)

\* Variant: the flag is initialised to True before the probe.
AssignPlantumlAvailableFalse_InitTrue(r) ==
    Assign(r, "L26", "L28", "plantuml_available", TRUE)

AssignPlantumlAvailableFalse(r) ==
    Assign(r, "L26", "L28", "plantuml_available", FALSE)

\* -- try: import sphinxcontrib.plantuml (line 28)
ImportPlantuml(r) ==
    /\ pc[r] = "L28"
    /\ importResult' = [importResult EXCEPT ![r] = env[r].plugin]
    /\ IF env[r].plugin = "ok"
       THEN /\ ns' = [ns EXCEPT ![r] = Bind(@, "sphinxcontrib", "<module>")]
            /\ pc' = [pc EXCEPT ![r] = "L29"]
            /\ UNCHANGED exc
       ELSE /\ exc' = [exc EXCEPT ![r] = env[r].plugin]
            /\ pc' = [pc EXCEPT ![r] = Handler(env[r].plugin)]
            /\ UNCHANGED ns
    /\ UNCHANGED <<env, whichCalls>>

\* Variant: extensions.insert(0, 'sphinxcontrib.plantuml').
AppendPlantumlExtension_Prepend(r) ==
    /\ Goto(r, "L29", "L30")
    /\ ns' = [ns EXCEPT ![r] =
                Bind(@, "extensions", << PlantumlExtension >> \o @["extensions"])]
    /\ UNCHANGED <<env, importResult, whichCalls, exc>>

\* -- extensions.append('sphinxcontrib.plantuml') (line 29)
AppendPlantumlExtension(r) ==
    /\ Goto(r, "L29", "L30")
    /\ ns' = [ns EXCEPT ![r] =
                Bind(@, "extensions", Append(@["extensions"], PlantumlExtension))]
    /\ UNCHANGED <<env, importResult, whichCalls, exc>>

\* -- plantuml_available = True (line 30)
AssignPlantumlAvailableTrue(r) ==
    Assign(r, "L30", "L33", "plantuml_available", TRUE)

\* -- import shutil (line 33): standard library, always importable
ImportShutil(r) ==
    Assign(r, "L33", "L34", "shutil", "<module>")

\* Variant: the test is inverted, `if not shutil.which('plantuml'):`.
WhichPlantuml_Inverted(r) ==
    /\ pc[r] = "L34"
    /\ whichCalls' = [whichCalls EXCEPT ![r] = @ + 1]
    /\ pc' = [pc EXCEPT ![r] = IF Truthy(Which(env[r])) THEN "L37" ELSE "L35"]
    /\ UNCHANGED <<ns, env, importResult, exc>>

\* -- if shutil.which('plantuml'): (line 34)
WhichPlantuml(r) ==
    /\ pc[r] = "L34"
    /\ whichCalls' = [whichCalls EXCEPT ![r] = @ + 1]
    /\ pc' = [pc EXCEPT ![r] = IF Truthy(Which(env[r])) THEN "L35" ELSE "L37"]
    /\ UNCHANGED <<ns, env, importResult, exc>>

\* -- plantuml = 'plantuml' (line 35)
AssignPlantumlCommand(r) ==
    Assign(r, "L35", "L38", "plantuml", PlantumlCommand)

\* Variant: a missing binary is reported by raising instead of falling back.
AssignPlantumlJar_Raise(r) ==
    /\ pc[r] = "L37"
    /\ exc' = [exc EXCEPT ![r] = "RuntimeError"]
    /\ pc' = [pc EXCEPT ![r] = Handler("RuntimeError")]
    /\ UNCHANGED <<ns, env, importResult, whichCalls>>

\* -- plantuml = 'java -jar /usr/share/plantuml/plantuml.jar' (line 37)
AssignPlantumlJar(r) ==
    Assign(r, "L37", "L38", "plantuml", PlantumlJarCommand)

\* Variant: the output format is assigned inside the `if` branch only.
AssignPlantumlOutputFormat_OnlyIfFound(r) ==
    /\ Goto(r, "L38", "L44")
    /\ ns' = [ns EXCEPT ![r] =
                IF Truthy(Which(env[r]))
                THEN Bind(@, "plantuml_output_format", "svg") ELSE @]
    /\ UNCHANGED <<env, importResult, whichCalls, exc>>

\* -- plantuml_output_format = 'svg' (line 38)
AssignPlantumlOutputFormat(r) ==
    Assign(r, "L38", "L44", "plantuml_output_format", "svg")

\* Variant: the handler looks the binary up itself.
ExceptImportError_Lookup(r) ==
    /\ Goto(r, "L41", "L44")
    /\ exc' = [exc EXCEPT ![r] = "none"]
    /\ whichCalls' = [whichCalls EXCEPT ![r] = @ + 1]
    /\ UNCHANGED <<ns, env, importResult>>

\* Variant: the handler assigns the fallback command.
ExceptImportError_SetsCommand(r) ==
    /\ Goto(r, "L41", "L44")
    /\ exc' = [exc EXCEPT ![r] = "none"]
    /\ ns' = [ns EXCEPT ![r] = Bind(@, "plantuml", PlantumlJarCommand)]
    /\ UNCHANGED <<env, importResult, whichCalls>>

\* -- except ImportError: pass (lines 39-41): the exception is handled
ExceptImportError(r) ==
    /\ Goto(r, "L41", "L44")
    /\ exc' = [exc EXCEPT ![r] = "none"]
    /\ UNCHANGED <<ns, env, importResult, whichCalls>>

\* -- html_context = {'plantuml_available': plantuml_available} (lines 44-46)
AssignHtmlContext(r) ==
    /\ pc[r] = "L44"
    /\ IF Defined(r, "plantuml_available")
       THEN /\ ns' = [ns EXCEPT ![r] =
                        Bind(@, "html_context",
                             [plantuml_available |-> @["plantuml_available"]])]
            /\ pc' = [pc EXCEPT ![r] = "L48"]
            /\ UNCHANGED exc
       ELSE /\ exc' = [exc EXCEPT ![r] = "NameError"]
            /\ pc' = [pc EXCEPT ![r] = "error"]
            /\ UNCHANGED ns
    /\ UNCHANGED <<env, importResult, whichCalls>>

\* -- templates_path = ['_templates'] (line 48)
AssignTemplatesPath(r) ==
    Assign(r, "L48", "L51", "templates_path", << "_templates" >>)

\* Variant: the README.rst entry is missing from the list.
AssignExcludePatterns_NoReadmeRst(r) ==
    Assign(r, "L51", "L70", "exclude_patterns",
           SelectSeq(ExcludePatterns, LAMBDA p : p # "README.rst"))

\* -- exclude_patterns = [...] (lines 51-65)
AssignExcludePatterns(r) ==
    Assign(r, "L51", "L70", "exclude_patterns", ExcludePatterns)

\* -- Options for HTML output (lines 70-83)
AssignHtmlTheme(r) ==
    Assign(r, "L70", "L71", "html_theme", "sphinx_rtd_theme")

AssignHtmlStaticPath(r) ==
    Assign(r, "L71", "L73", "html_static_path", << "_static" >>)

AssignHtmlThemeOptions(r) ==
    Assign(r, "L73", "L81", "html_theme_options", HtmlThemeOptions)

\* Variant: the diagram stylesheet is listed only when the plugin is loaded.
AssignHtmlCssFiles_OnlyWithPlugin(r) ==
    Assign(r, "L81", "L88", "html_css_files",
           IF ns[r]["plantuml_available"] THEN << "custom.css" >> ELSE << >>)

AssignHtmlCssFiles(r) ==
    Assign(r, "L81", "L88", "html_css_files", << "custom.css" >>)

\* -- Options for Intersphinx (lines 88-91); the script ends after it
AssignIntersphinxMapping(r) ==
    Assign(r, "L88", "done", "intersphinx_mapping", IntersphinxMapping)

\* One statement of run r.
RunStep(r) ==
        \/ AssignProject(r)
        \/ AssignCopyright(r)
        \/ AssignAuthor(r)
        \/ AssignRelease(r)
        \/ AssignVersion(r)
        \/ AssignExtensions(r)
        \/ AssignPlantumlAvailableFalse(r)
        \/ ImportPlantuml(r)
        \/ AppendPlantumlExtension(r)
        \/ AssignPlantumlAvailableTrue(r)
        \/ ImportShutil(r)
        \/ WhichPlantuml(r)
        \/ AssignPlantumlCommand(r)
        \/ AssignPlantumlJar(r)
        \/ AssignPlantumlOutputFormat(r)
        \/ ExceptImportError(r)
        \/ AssignHtmlContext(r)
        \/ AssignTemplatesPath(r)
        \/ AssignExcludePatterns(r)
        \/ AssignHtmlTheme(r)
        \/ AssignHtmlStaticPath(r)
        \/ AssignHtmlThemeOptions(r)
        \/ AssignHtmlCssFiles(r)
        \/ AssignIntersphinxMapping(r)

\* The builds are independent processes; any of them takes the next step.
Next == \E r \in Runs : RunStep(r)

Spec == Init /\ [][Next]_vars

\* ---------------------------------------------------------------- typing

TypeOK ==
    /\ pc \in [Runs -> {"L9", "L10", "L11", "L12", "L13", "L18", "L26", "L28",
                        "L29", "L30", "L33", "L34", "L35", "L37", "L38", "L41",
                        "L44", "L48", "L51", "L70", "L71", "L73", "L81", "L88",
                        "done", "error"}]
    /\ env \in [Runs -> Envs]
    /\ importResult \in [Runs -> ImportOutcomes \cup {"pending"}]
    /\ whichCalls \in [Runs -> Nat]
    /\ exc \in [Runs -> ImportErrorClasses \cup {"none", "NameError"}]

\* ---------------------------------------------------------------- properties

\* The run has executed the last statement of conf.py.
Done(r) == pc[r] = "done"

\* The plugin import of the run was attempted and succeeded / raised.
ImportOk(r) == importResult[r] = "ok"

ImportFailed(r) == importResult[r] \in ImportErrorClasses

\* Names the import statements of lines 28 and 33 bind to module objects;
\* they are not configuration variables.
ImportedNames == {"sphinxcontrib", "shutil"}

\* The configuration variables the run has defined so far.
ConfigKeys(r) == (DOMAIN ns[r]) \ ImportedNames

PlantumlKeys == {"plantuml", "plantuml_output_format"}

\* The assignments that follow the try block.
LaterKeys ==
    {"html_context", "templates_path", "exclude_patterns", "html_theme",
     "html_static_path", "html_theme_options", "html_css_files",
     "intersphinx_mapping"}

\* The configuration values that do not depend on the probes.
StableKeys ==
    {"project", "copyright", "author", "release", "version",
     "templates_path", "exclude_patterns", "html_theme", "html_static_path",
     "html_theme_options", "html_css_files", "intersphinx_mapping"}

\* ---------------------------------------------------------------- claims

\* C1 (as stated): any two finished runs, whatever their environments, have
\* defined exactly the same set of configuration variables.
C1_SameKeysInEveryEnvironment ==
    \A r1, r2 \in Runs :
        Done(r1) /\ Done(r2) => ConfigKeys(r1) = ConfigKeys(r2)

\* C1 (amended): any two finished runs define the same configuration
\* variables apart from plantuml and plantuml_output_format, and two finished
\* runs that agree on whether the plugin import succeeded define exactly the
\* same set, whatever the binary lookup finds.
C1_KeysDependOnlyOnImport ==
    \A r1, r2 \in Runs :
        Done(r1) /\ Done(r2) =>
            /\ ConfigKeys(r1) \ PlantumlKeys = ConfigKeys(r2) \ PlantumlKeys
            /\ (ImportOk(r1) <=> ImportOk(r2)) => ConfigKeys(r1) = ConfigKeys(r2)

\* Two finished runs, the plugin imported in one and not in the other.
C1_Witness ==
    \E r1, r2 \in Runs :
        /\ Done(r1) /\ Done(r2)
        /\ ImportOk(r1) /\ ImportFailed(r2)
        /\ ConfigKeys(r1) # ConfigKeys(r2)

\* C2: plantuml_available is True only if the plugin import has succeeded
\* (it is False before the import and stays False when the import raises),
\* and at the end html_context['plantuml_available'] equals the flag.
C2_FlagOnlyIfImported ==
    \A r \in Runs :
        /\ Defined(r, "plantuml_available") /\ ns[r]["plantuml_available"]
              => ImportOk(r)
        /\ Done(r) =>
              ns[r]["html_context"].plantuml_available = ns[r]["plantuml_available"]

\* A finished run whose import raised and left the flag False, next to a
\* finished run whose import succeeded and published True.
C2_Witness ==
    \E r1, r2 \in Runs :
        /\ Done(r1) /\ ImportFailed(r1) /\ ~ns[r1]["html_context"].plantuml_available
        /\ Done(r2) /\ ImportOk(r2) /\ ns[r2]["html_context"].plantuml_available

\* C3: when the plugin import raises ImportError the run never terminates
\* with an exception, and when it finishes every assignment after the try
\* block has been made and plantuml_available is False.
C3_ImportErrorIsHandled ==
    \A r \in Runs :
        ImportFailed(r) =>
            /\ pc[r] # "error"
            /\ Done(r) =>
                  /\ LaterKeys \subseteq DOMAIN ns[r]
                  /\ ns[r]["plantuml_available"] = FALSE

\* A run whose import raised plain ImportError has reached the end.
C3_Witness ==
    \E r \in Runs :
        /\ importResult[r] = "ImportError" /\ Done(r)
        /\ exc[r] = "none"
        /\ LaterKeys \subseteq DOMAIN ns[r]

\* C4: once assigned, and in particular at the end of every run,
\* exclude_patterns is exactly the literal list of 13 entries.
C4_ExcludePatternsLiteral ==
    \A r \in Runs :
        (Done(r) \/ Defined(r, "exclude_patterns")) =>
            ns[r]["exclude_patterns"] =
                << "_build", "_build_sphinx", "Thumbs.db", ".DS_Store",
                   "README.md", "README.rst", "../.github/**",
                   "../.gitlab-ci.yml", "**/.git/**", "**/node_modules/**",
                   "**/build/**", "**/build_app/**", "**/build_net/**" >>

\* Two finished runs whose probes answered differently both hold the list.
C4_Witness ==
    \E r1, r2 \in Runs :
        /\ Done(r1) /\ ImportOk(r1) /\ env[r1].onPath
        /\ Done(r2) /\ ImportFailed(r2)
        /\ Len(ns[r1]["exclude_patterns"]) = 13
        /\ Len(ns[r2]["exclude_patterns"]) = 13

C6_LookupAtMostOnceAfterImport ==
    \A r \in Runs :
        /\ whichCalls[r] <= 1
        /\ whichCalls[r] > 0 => ImportOk(r)
        /\ ImportFailed(r) => whichCalls[r] = 0

\* A finished run that looked the binary up once, next to a finished run
\* whose import raised and that made no lookup.
C6_Witness ==
    \E r1, r2 \in Runs :
        /\ Done(r1) /\ ImportOk(r1) /\ whichCalls[r1] = 1
        /\ Done(r2) /\ ImportFailed(r2) /\ whichCalls[r2] = 0

\* C7: at the end, the plugin entry is in extensions iff plantuml_available
\* is True; the four base entries are the first four elements in order; the
\* plugin entry, when present, occurs exactly once and is the last element.
C7_ExtensionsShape ==
    \A r \in Runs :
        Done(r) =>
            LET e == ns[r]["extensions"]
                at == {i \in 1..Len(e) : e[i] = "sphinxcontrib.plantuml"}
            IN  /\ (at # {}) <=> (ns[r]["plantuml_available"] = TRUE)
                /\ Len(e) >= 4
                /\ SubSeq(e, 1, 4) =
                      << "sphinx.ext.intersphinx", "sphinx.ext.autodoc",
                         "sphinx.ext.todo", "sphinx.ext.viewcode" >>
                /\ at # {} => at = {Len(e)}

\* A finished run with the plugin entry appended, next to one without it.
C7_Witness ==
    \E r1, r2 \in Runs :
        /\ Done(r1) /\ Len(ns[r1]["extensions"]) = 5
        /\ Done(r2) /\ Len(ns[r2]["extensions"]) = 4

C9_PlantumlKeysIffAvailable ==
    \A r \in Runs :
        /\ Done(r) =>
              \A k \in PlantumlKeys :
                  Defined(r, k) <=> (ns[r]["plantuml_available"] = TRUE)
        /\ ImportFailed(r) => \A k \in PlantumlKeys : ~Defined(r, k)

\* A finished run that defines both, next to a finished run with neither.
C9_Witness ==
    \E r1, r2 \in Runs :
        /\ Done(r1) /\ PlantumlKeys \subseteq DOMAIN ns[r1]
        /\ Done(r2) /\ ImportFailed(r2) /\ PlantumlKeys \cap DOMAIN ns[r2] = {}

\* C10: any two finished runs agree on the value of every configuration
\* variable other than extensions, plantuml_available, html_context,
\* plantuml and plantuml_output_format.
C10_StableValuesAgree ==
    \A r1, r2 \in Runs :
        Done(r1) /\ Done(r2) =>
            \A k \in StableKeys :
                /\ Defined(r1, k) /\ Defined(r2, k)
                /\ ns[r1][k] = ns[r2][k]

\* Two finished runs that differ in plugin availability and in the binary.
C10_Witness ==
    \E r1, r2 \in Runs :
        /\ Done(r1) /\ Done(r2)
        /\ ImportOk(r1) /\ ImportFailed(r2)
        /\ env[r1].onPath # env[r2].onPath
        /\ ns[r1]["html_context"] # ns[r2]["html_context"]

====
